---- MODULE Spec2Model ----
(***************************************************************************)
(* THE-UNIQ-ID: the UNIQID ledger contract (anchorRoot / verifyUser /      *)
(* getRoot / rootToId) and the server's registration and login handlers   *)
(* that write to it and read from it.                                      *)
(*                                                                         *)
(* Text values (hex strings, payloads, ids in display form) are TLA+       *)
(* strings; a bytes32 word on the ledger is the natural number its hex     *)
(* digits denote.  The hash functions are small arithmetic stand-ins over  *)
(* a field of FieldModulus elements.                                       *)
(***************************************************************************)
EXTENDS Integers, Sequences, FiniteSets, TLC

\* ------------------------------------------------------------------ bounds
\* ids the ledger assigns in one behaviour (anchorings mined or still pending)
MaxId == 3
\* size of the stand-in scalar field of the commitment hash
FieldModulus == 13

\* ------------------------------------------------------- program constants
\* hex digits of a bytes32 word (handlers.js to0xPadded32)
HexWidth == 64
\* digits of the numeric part of "UNIQ-000123"
IdPadWidth == 6
\* minimum passphrase length
MinParaphraseLen == 8

\* ------------------------------------------------------------ text helpers
\* JavaScript null / undefined
Null == "<null>"

CharAt(s, i) == SubSeq(s, i, i)

DropFirst(s, n) == SubSeq(s, n + 1, Len(s))

HexChars == "0123456789abcdef"

UpperChars == "ABCDEFGHIJKLMNOPQRSTUVWXYZ"

LowerChars == "abcdefghijklmnopqrstuvwxyz"

DigitChars == "0123456789"

SpecialChars == "!@#$%^&*"

CharsOf(chars) == {CharAt(chars, i) : i \in 1..Len(chars)}

\* the position of each character of a character class in it
PositionIn(chars) ==
    [c \in CharsOf(chars) |-> CHOOSE i \in 1..Len(chars) : CharAt(chars, i) = c]

UpperPosition == PositionIn(UpperChars)

HexPosition == PositionIn(HexChars)

\* String.prototype.toLowerCase, one character
LowerChar(c) ==
    IF c \in DOMAIN UpperPosition THEN CharAt(LowerChars, UpperPosition[c]) ELSE c

RECURSIVE toLowerCase(_)
\* String.prototype.toLowerCase, character by character: a text without
\* upper-case letters is its own result, any other is split in halves (which
\* keeps the evaluation shallow)
toLowerCase(s) ==
    IF \A i \in 1..Len(s) : CharAt(s, i) \notin DOMAIN UpperPosition THEN s
    ELSE IF Len(s) = 1 THEN LowerChar(s)
    ELSE toLowerCase(SubSeq(s, 1, Len(s) \div 2))
         \o toLowerCase(SubSeq(s, Len(s) \div 2 + 1, Len(s)))

\* RegExp /[...]/.test(s), for a character class given as a set
HasCharOf(s, class) == \E i \in 1..Len(s) : CharAt(s, i) \in class

\* RegExp /^[...]*$/.test(s)
AllCharsOf(s, class) == \A i \in 1..Len(s) : CharAt(s, i) \in class

UpperClass == CharsOf(UpperChars)

LowerClass == CharsOf(LowerChars)

DigitClass == CharsOf(DigitChars)

SpecialClass == CharsOf(SpecialChars)

HexClass == CharsOf(HexChars) \cup CharsOf("ABCDEF")

StartsWith(s, p) == Len(s) >= Len(p) /\ SubSeq(s, 1, Len(p)) = p

RECURSIVE Repeat(_, _)
\* String.prototype.repeat
Repeat(c, n) ==
    IF n <= 0 THEN ""
    ELSE IF n = 1 THEN c
    ELSE Repeat(c, n \div 2) \o Repeat(c, n - n \div 2)

\* String.prototype.padStart with a one-character fill
padStart(s, n, c) == IF Len(s) >= n THEN s ELSE Repeat(c, n - Len(s)) \o s

RECURSIVE NatToString(_, _)
\* BigInt.prototype.toString(radix), radix 10 or 16, lower-case digits
NatToString(n, radix) ==
    IF n < radix THEN CharAt(HexChars, n + 1)
    ELSE NatToString(n \div radix, radix) \o CharAt(HexChars, (n % radix) + 1)

IsHexDigits(s) == AllCharsOf(s, HexClass)

RECURSIVE DigitsToNat(_, _, _)
DigitsToNat(s, radix, acc) ==
    IF Len(s) = 0 THEN acc
    ELSE DigitsToNat(DropFirst(s, 1), radix,
                     acc * radix + (HexPosition[LowerChar(CharAt(s, 1))] - 1))

\* the digits of s from its first non-zero digit on
StripLeadingZeros(s) ==
    LET nz == {i \in 1..Len(s) : CharAt(s, i) # "0"}
    IN  IF nz = {} THEN ""
        ELSE SubSeq(s, CHOOSE i \in nz : \A j \in nz : i <= j, Len(s))

\* BigInt("0x..."): the value of a 0x-prefixed hex string
BigIntOfHex(hexStr) == DigitsToNat(StripLeadingZeros(DropFirst(hexStr, 2)), 16, 0)

\* x || "" for a text value
OrEmpty(x) == IF x = Null THEN "" ELSE x

\* String.prototype.trim (spaces only)
RECURSIVE trimStart(_)
trimStart(s) == IF Len(s) > 0 /\ CharAt(s, 1) = " " THEN trimStart(DropFirst(s, 1)) ELSE s

RECURSIVE trimEnd(_)
trimEnd(s) ==
    IF Len(s) > 0 /\ CharAt(s, Len(s)) = " " THEN trimEnd(SubSeq(s, 1, Len(s) - 1)) ELSE s

RECURSIVE Join(_, _)
\* Array.prototype.join
Join(parts, sep) ==
    IF Len(parts) = 0 THEN ""
    ELSE IF Len(parts) = 1 THEN parts[1]
    ELSE parts[1] \o sep \o Join(Tail(parts), sep)

\* --------------------------------------------------------- hash stand-ins
CodeChars == LowerChars \o UpperChars \o DigitChars \o SpecialChars \o " .-:|_"

CodePosition == PositionIn(CodeChars)

RECURSIVE KeccakFold(_, _)
KeccakFold(s, acc) ==
    IF Len(s) = 0 THEN acc
    ELSE KeccakFold(DropFirst(s, 1), (acc * 31 + CodePosition[CharAt(s, 1)] + 1) % 65521)

\* keccak256(Buffer.from(s, 'utf8')) read as an unsigned integer
keccak256(s) == KeccakFold(s, 7)

RECURSIVE PoseidonFold(_, _)
PoseidonFold(xs, acc) ==
    IF Len(xs) = 0 THEN acc
    ELSE LET x == Head(xs) % FieldModulus
         IN  PoseidonFold(Tail(xs), (acc * 5 + x * x + x + 5) % FieldModulus)

\* poseidon(inputs), as the field element F.toObject would give
poseidon(xs) == PoseidonFold(xs, Len(xs))

\* OpenZeppelin Hashes.commutativeKeccak256: keccak256 of the sorted pair
commutativeKeccak256(a, b) ==
    IF a < b THEN (a * 31 + b * 17 + 11) % 65521 ELSE (b * 31 + a * 17 + 11) % 65521

\* --------------------------------------------------- merkle.js tree helpers
\* leafFromFields({ email_hash, parahash }): poseidon([emailDec, paraDec])
leafFromFields(f) == poseidon(<<BigIntOfHex(f.email_hash), BigIntOfHex(f.parahash)>>)

\* singleLeafRoot(leafBigInt): poseidon([BigInt(leafBigInt)])
singleLeafRoot(leafBigInt) == poseidon(<<leafBigInt>>)

\* ------------------------------------------------- handlers.js pure helpers
poseidonHashHexFromUtf8(inputString) ==
    LET s   == OrEmpty(inputString)
        big == keccak256(s)
        out == poseidon(<<big>>)
    IN  "0x" \o NatToString(out, 16)

to0xPadded32(hexStr) ==
    IF hexStr = Null \/ hexStr = "" THEN Null
    ELSE LET s0 == IF StartsWith(hexStr, "0x") THEN DropFirst(hexStr, 2) ELSE hexStr
             s1 == IF Len(s0) > HexWidth THEN SubSeq(s0, Len(s0) - HexWidth + 1, Len(s0)) ELSE s0
         IN  "0x" \o toLowerCase(padStart(s1, HexWidth, "0"))

hexToDecString(hexStr) ==
    IF hexStr = Null \/ hexStr = "" THEN Null
    ELSE NatToString(BigIntOfHex(hexStr), 10)

\* poseidonHashHexFromFieldHex, mutated: the result is not padded to 32 bytes
poseidonHashHexFromFieldHexUnpadded(hexA, hexB) ==
    "0x" \o NatToString(poseidon(<<BigIntOfHex(hexA), BigIntOfHex(hexB)>>), 16)

poseidonHashHexFromFieldHex(hexA, hexB) ==
    LET aHex == IF StartsWith(OrEmpty(hexA), "0x") THEN hexA ELSE "0x" \o OrEmpty(hexA)
        bHex == IF StartsWith(OrEmpty(hexB), "0x") THEN hexB ELSE "0x" \o OrEmpty(hexB)
        out  == poseidon(<<BigIntOfHex(aHex), BigIntOfHex(bHex)>>)
    IN  toLowerCase("0x" \o padStart(NatToString(out, 16), HexWidth, "0"))

normalizeEmail(e) == toLowerCase(trimEnd(trimStart(OrEmpty(e))))

\* ------------------------------------------------ merkle.js canonical payload
Field(f, name) == IF name \in DOMAIN f THEN f[name] ELSE Null

\* buildPayloadString({ uniq_id, email_hash, parahash, salt, timestamp, root = "" })
buildPayloadString(f) ==
    LET parts == << OrEmpty(Field(f, "uniq_id")),
                    toLowerCase(OrEmpty(Field(f, "email_hash"))),
                    toLowerCase(OrEmpty(Field(f, "parahash"))),
                    toLowerCase(OrEmpty(Field(f, "salt"))),
                    OrEmpty(Field(f, "timestamp")) >>
        root  == OrEmpty(Field(f, "root"))
    IN  Join(IF root # "" THEN Append(parts, toLowerCase(root)) ELSE parts, "|")

\* ------------------------------------------------------ message signatures
\* the anchoring authority's key (DEPLOYER_PRIVATE_KEY) and another party's key
ServerKey == "server-key"

OtherKey == "other-key"

\* wallet.address: the checksummed address of a key
AddressOf(key) ==
    IF key = ServerKey THEN "0xAb5801a7D398351b8bE11C439e05C5B3259aeC9B"
    ELSE "0x52908400098527886E0F7030069857D2E4169EE7"

\* ethers hashMessage: the digest that is signed is taken over the EIP-191
\* prefix, the length of the message and the message
MessagePrefix == "Ethereum Signed Message:"

hashMessage(message) == MessagePrefix \o NatToString(Len(message), 10) \o ":" \o message

\* wallet.signMessage(message): a signature binds the key to the digest
signMessage(key, message) == [key |-> key, digest |-> hashMessage(message)]

NoSignature == [key |-> Null, digest |-> Null]

Throw == "<throw>"

\* verifyMessage, mutated: the address is recovered from the digest of the bare
\* message, without the EIP-191 prefix
verifyMessageNoPrefix(message, signature) ==
    IF signature = NoSignature THEN Throw
    ELSE IF signature.digest = message THEN AddressOf(signature.key)
    ELSE "0x000000000000000000000000000000000000dEaD"

\* ethers.verifyMessage(message, signature): the address recovered, which is the
\* signing key's address only for the signed message
verifyMessage(message, signature) ==
    IF signature = NoSignature THEN Throw
    ELSE IF signature.digest = hashMessage(message) THEN AddressOf(signature.key)
    ELSE "0x000000000000000000000000000000000000dEaD"

\* ================================================================ state
VARIABLES
    nextId,      \* UNIQID.nextId
    roots,       \* UNIQID.roots: the ids written so far, mapped to their root
    rootToId,    \* UNIQID.rootToId: the roots written so far, mapped to an id
    eventLog,    \* the RootAnchored events emitted, in order
    lastCall,    \* the last anchorRoot call executed and what it returned
    env,         \* which of SEP_RPC, CONTRACT_ADDR, DEPLOYER_PRIVATE_KEY are set
    orphans,     \* anchoring transactions still pending whose request has ended
    reg,         \* the complete-registration requests in flight
    held,        \* the returned package that login requests present
    login,       \* the login request handled last, until its response is delivered
    lastView,    \* the last read-only ledger call made from outside and its result
    emailCheck,  \* the register-email or verify-email request handled last, until answered
    enc,         \* a pair of inputs of a pure function under comparison, and its outputs
    engine       \* the merkle module's Poseidon instance, its builds and its callers

ledgerVars == <<nextId, roots, rootToId, eventLog>>

vars == <<nextId, roots, rootToId, eventLog, lastCall, env, orphans, reg, held, login, lastView,
         emailCheck, enc, engine>>

\* --------------------------------------------------------- UNIQID contract
\* a Solidity mapping reads as zero where nothing was written
ReadMapping(m, key) == IF key \in DOMAIN m THEN m[key] ELSE 0

RootsAt(id) == ReadMapping(roots, id)

RootToIdAt(root) == ReadMapping(rootToId, root)

\* function getRoot(uint256 uniqId) external view returns (bytes32)
getRoot(uniqId) == RootsAt(uniqId)

RECURSIVE processProof(_, _)
\* MerkleProof.processProof: fold the siblings into the leaf
processProof(proof, computedHash) ==
    IF Len(proof) = 0 THEN computedHash
    ELSE processProof(Tail(proof), commutativeKeccak256(computedHash, Head(proof)))

\* MerkleProof.verify(proof, root, leaf)
MerkleProofVerify(proof, root, leaf) == processProof(proof, leaf) = root

Reverted == [reverted |-> TRUE, value |-> FALSE]

Returned(v) == [reverted |-> FALSE, value |-> v]

\* the range check of verifyUser, mutated: the require is missing
verifyUserNoRangeCheck(uniqId, leaf, proof) ==
    Returned(MerkleProofVerify(proof, RootsAt(uniqId), leaf))

\* verifyUser, mutated: the leaf is compared with the root found by reverse lookup
verifyUserByReverseLookup(uniqId, leaf, proof) ==
    IF ~(uniqId > 0 /\ uniqId <= nextId) THEN Reverted
    ELSE Returned(RootToIdAt(processProof(proof, leaf)) # 0)

\* function verifyUser(uint256 uniqId, bytes32 leaf, bytes32[] calldata proof)
verifyUser(uniqId, leaf, proof) ==
    IF ~(uniqId > 0 /\ uniqId <= nextId) THEN Reverted
    ELSE Returned(MerkleProofVerify(proof, RootsAt(uniqId), leaf))

CallEntry(root, sender, ok, id) == [root |-> root, sender |-> sender, ok |-> ok, id |-> id]

\* anchorRoot, mutated: a root anchored before gets its old id back
anchorRootDedup(root, sender) ==
    IF root = 0
    THEN /\ UNCHANGED ledgerVars
         /\ lastCall' = CallEntry(root, sender, FALSE, 0)
    ELSE IF RootToIdAt(root) # 0
    THEN /\ UNCHANGED <<nextId, roots, rootToId>>
         /\ eventLog' = Append(eventLog, [uniqId |-> RootToIdAt(root), root |-> root,
                                          submitter |-> sender])
         /\ lastCall' = CallEntry(root, sender, TRUE, RootToIdAt(root))
    ELSE /\ nextId' = nextId + 1
         /\ roots' = (nextId' :> root) @@ roots
         /\ rootToId' = (root :> nextId') @@ rootToId
         /\ eventLog' = Append(eventLog, [uniqId |-> nextId', root |-> root,
                                          submitter |-> sender])
         /\ lastCall' = CallEntry(root, sender, TRUE, nextId')

\* anchorRoot, mutated: re-anchoring a root moves its record to the new id
anchorRootMove(root, sender) ==
    IF root = 0
    THEN /\ UNCHANGED ledgerVars
         /\ lastCall' = CallEntry(root, sender, FALSE, 0)
    ELSE /\ nextId' = nextId + 1
         /\ roots' = (nextId' :> root) @@
                     [i \in DOMAIN roots |-> IF i = RootToIdAt(root) THEN 0 ELSE roots[i]]
         /\ rootToId' = (root :> nextId') @@ rootToId
         /\ eventLog' = Append(eventLog, [uniqId |-> nextId', root |-> root,
                                          submitter |-> sender])
         /\ lastCall' = CallEntry(root, sender, TRUE, nextId')

\* anchorRoot, mutated: the reverse lookup is rebuilt with the new entry alone
anchorRootResetLookup(root, sender) ==
    IF root = 0
    THEN /\ UNCHANGED ledgerVars
         /\ lastCall' = CallEntry(root, sender, FALSE, 0)
    ELSE /\ nextId' = nextId + 1
         /\ roots' = (nextId' :> root) @@ roots
         /\ rootToId' = (root :> nextId')
         /\ eventLog' = Append(eventLog, [uniqId |-> nextId', root |-> root,
                                          submitter |-> sender])
         /\ lastCall' = CallEntry(root, sender, TRUE, nextId')

\* anchorRoot, mutated: the reverse lookup keeps the first id of a root
anchorRootFirstWins(root, sender) ==
    IF root = 0
    THEN /\ UNCHANGED ledgerVars
         /\ lastCall' = CallEntry(root, sender, FALSE, 0)
    ELSE /\ nextId' = nextId + 1
         /\ roots' = (nextId' :> root) @@ roots
         /\ rootToId' = rootToId @@ (root :> nextId')
         /\ eventLog' = Append(eventLog, [uniqId |-> nextId', root |-> root,
                                          submitter |-> sender])
         /\ lastCall' = CallEntry(root, sender, TRUE, nextId')

\* anchorRoot, mutated: the zero-root require is missing
anchorRootNoRequire(root, sender) ==
    /\ nextId' = nextId + 1
    /\ roots' = (nextId' :> root) @@ roots
    /\ rootToId' = (root :> nextId') @@ rootToId
    /\ eventLog' = Append(eventLog, [uniqId |-> nextId', root |-> root, submitter |-> sender])
    /\ lastCall' = CallEntry(root, sender, TRUE, nextId')

\* function anchorRoot(bytes32 root) external returns (uint256), called by sender:
\* a revert leaves the contract's storage and log as they were
anchorRoot(root, sender) ==
    IF root = 0
    THEN /\ UNCHANGED ledgerVars
         /\ lastCall' = CallEntry(root, sender, FALSE, 0)
    ELSE /\ nextId' = nextId + 1
         /\ roots' = (nextId' :> root) @@ roots
         /\ rootToId' = (root :> nextId') @@ rootToId
         /\ eventLog' = Append(eventLog, [uniqId |-> nextId', root |-> root,
                                          submitter |-> sender])
         /\ lastCall' = CallEntry(root, sender, TRUE, nextId')

\* ============================================================ the server
\* const provider / wallet / signerAddress / contract (handlers.js, module scope)
provider == IF "SEP_RPC" \in env THEN "provider" ELSE Null

wallet == IF "DEPLOYER_PRIVATE_KEY" \in env /\ provider # Null THEN ServerKey ELSE Null

signerAddress == IF wallet # Null THEN AddressOf(wallet) ELSE Null

contract == IF wallet # Null /\ "CONTRACT_ADDR" \in env THEN "contract" ELSE Null

\* a confirmation claim as presented: absent, not verifiable, expired, or valid
Token(kind, email) == [kind |-> kind, email |-> email]

CountChar(s, c) == Cardinality({i \in 1..Len(s) : CharAt(s, i) = c})

\* validator.isEmail: one "@", a local part, a dotted domain, no blanks
isEmail(s) ==
    /\ CountChar(s, "@") = 1
    /\ CountChar(s, " ") = 0
    /\ LET at == CHOOSE i \in 1..Len(s) : CharAt(s, i) = "@"
       IN  /\ at > 1
           /\ \E d \in (at + 2)..(Len(s) - 1) : CharAt(s, d) = "."

\* the passphrase policy, mutated: only the first rule violated is reported
paraphraseErrsFirstOnly(paraphrase) ==
    IF Len(paraphrase) < MinParaphraseLen THEN <<">=8 chars">>
    ELSE IF ~HasCharOf(paraphrase, UpperClass) THEN <<"uppercase">>
    ELSE IF ~HasCharOf(paraphrase, LowerClass) THEN <<"lowercase">>
    ELSE IF ~HasCharOf(paraphrase, DigitClass) THEN <<"digit">>
    ELSE IF ~HasCharOf(paraphrase, SpecialClass) THEN <<"special">>
    ELSE <<>>

\* the passphrase policy of complete-registration: the rules violated, in order
\* (the source's first label starts with the sign for "at least", written >= here)
paraphraseErrs(paraphrase) ==
    (IF Len(paraphrase) < MinParaphraseLen THEN <<">=8 chars">> ELSE <<>>)
    \o (IF ~HasCharOf(paraphrase, UpperClass) THEN <<"uppercase">> ELSE <<>>)
    \o (IF ~HasCharOf(paraphrase, LowerClass) THEN <<"lowercase">> ELSE <<>>)
    \o (IF ~HasCharOf(paraphrase, DigitClass) THEN <<"digit">> ELSE <<>>)
    \o (IF ~HasCharOf(paraphrase, SpecialClass) THEN <<"special">> ELSE <<>>)

NoPackage == [absent |-> TRUE]

NoReceipt == [absent |-> TRUE]

\* res.status(code).json({...})
Response(status, success, error, message, anchorTxHash, package) ==
    [status |-> status, success |-> success, error |-> error, message |-> message,
     anchorTxHash |-> anchorTxHash, package |-> package]

ErrorResponse(status, error) == Response(status, FALSE, error, Null, Null, NoPackage)

NoResponse == [absent |-> TRUE]

\* the bytes32 word ethers encodes for a hex string argument; only "0x" and
\* exactly HexWidth hex digits are accepted
IsBytes32Hex(h) ==
    /\ h # Null
    /\ Len(h) = HexWidth + 2
    /\ StartsWith(h, "0x")
    /\ IsHexDigits(DropFirst(h, 2))

Bytes32(h) == BigIntOfHex(h)

\* the package, mutated: the passphrase is hashed together with the salt
BuildPackageSalted(email, paraphrase, saltHex, timestampIso) ==
    LET emailHashHex == poseidonHashHexFromUtf8(email)
        paraHashHex  == poseidonHashHexFromUtf8(paraphrase \o saltHex)
        leafHex      == poseidonHashHexFromFieldHex(emailHashHex, paraHashHex)
    IN  [uniq_id |-> Null,
         email_hash |-> emailHashHex, email_hash_dec |-> hexToDecString(emailHashHex),
         parahash |-> paraHashHex, parahash_dec |-> hexToDecString(paraHashHex),
         salt |-> saltHex, timestamp |-> timestampIso,
         root |-> leafHex, root_dec |-> hexToDecString(leafHex),
         leaf |-> leafHex, leaf_dec |-> hexToDecString(leafHex),
         proof |-> <<>>,
         signer |-> signerAddress,
         signature |-> NoSignature]

\* the fields of minimalPackage computed from the request (handlers.js 199-274)
BuildPackage(email, paraphrase, saltHex, timestampIso) ==
    LET emailHashHex == poseidonHashHexFromUtf8(email)
        paraHashHex  == poseidonHashHexFromUtf8(paraphrase)
        leafHex      == poseidonHashHexFromFieldHex(emailHashHex, paraHashHex)
        rootHex      == leafHex
        canonical    == buildPayloadString([leaf |-> leafHex, root |-> rootHex,
                            email_hash |-> emailHashHex, parahash |-> paraHashHex,
                            salt |-> saltHex, timestamp |-> timestampIso])
        signature    == IF wallet # Null THEN signMessage(wallet, canonical) ELSE NoSignature
    IN  [uniq_id |-> Null,
         email_hash |-> emailHashHex, email_hash_dec |-> hexToDecString(emailHashHex),
         parahash |-> paraHashHex, parahash_dec |-> hexToDecString(paraHashHex),
         salt |-> saltHex, timestamp |-> timestampIso,
         root |-> rootHex, root_dec |-> hexToDecString(rootHex),
         leaf |-> leafHex, leaf_dec |-> hexToDecString(leafHex),
         proof |-> <<>>,
         signer |-> signerAddress,
         signature |-> signature]

\* req.body of a complete-registration request not yet received
NoBody == [token |-> [kind |-> "none", email |-> Null], paraphrase |-> Null]

IdleReg == [pc |-> "idle", body |-> NoBody, pkg |-> NoPackage, paddedRoot |-> Null,
            tx |-> "none", receipt |-> NoReceipt, resp |-> NoResponse]

Finish(r, resp) == [r EXCEPT !.pc = "done", !.resp = resp]

NotConfiguredNote ==
    "Contract/wallet not configured; root not anchored. Set SEP_RPC, CONTRACT_ADDR, "
    \o "DEPLOYER_PRIVATE_KEY in .env for on-chain anchoring."

\* jwt.verify throws
JwtThrows == [throws |-> TRUE, email |-> Null]

\* the token check, mutated: a token is consumed by its first redemption (a
\* request being handled carries it, or the server has anchored before)
jwtVerifySingleUse(token) ==
    IF /\ token.kind = "valid"
       /\ \A p \in DOMAIN reg : reg[p].body.token # token
       /\ \A i \in 1..Len(eventLog) : eventLog[i].submitter # AddressOf(ServerKey)
    THEN [throws |-> FALSE, email |-> token.email]
    ELSE JwtThrows

\* jwt.verify(token, JWT_SECRET): the payload of a token that carries the
\* server's signature and has not expired; nothing is stored about its use
jwtVerify(token) ==
    IF token.kind = "valid" THEN [throws |-> FALSE, email |-> token.email] ELSE JwtThrows

\* verifyEmailHandler (handlers.js 155-169)
verifyEmailResult(token) ==
    IF token.kind = "missing"
    THEN [token |-> token, status |-> 400, success |-> FALSE, error |-> "Missing token.",
          message |-> Null]
    ELSE IF jwtVerify(token).throws
    THEN [token |-> token, status |-> 400, success |-> FALSE,
          error |-> "Invalid or expired token.", message |-> Null]
    ELSE [token |-> token, status |-> 200, success |-> TRUE, error |-> Null,
          message |-> "Email verified."]

\* registerEmailHandler (handlers.js 129-151): the token is signed for the
\* normalized email and mailed; the response does not carry it
registerEmailResult(email, sendFails) ==
    LET none == Token("none", Null)
    IN
    IF email = Null \/ email = "" \/ ~isEmail(email)
    THEN [route |-> "register-email", token |-> none, mailed |-> none, status |-> 400,
          success |-> FALSE, error |-> "Invalid email.", message |-> Null]
    ELSE LET norm  == normalizeEmail(email)
             token == Token("valid", norm)
         IN  IF sendFails
             THEN [route |-> "register-email", token |-> none, mailed |-> none,
                   status |-> 500, success |-> FALSE,
                   error |-> "Failed to send verification email.", message |-> Null]
             ELSE [route |-> "register-email", token |-> none, mailed |-> token,
                   status |-> 200, success |-> TRUE, error |-> Null,
                   message |-> "Verification email sent."]

\* the handler, mutated: the passphrase policy is not applied before anchoring
RegStartResultNoPolicy(token, paraphrase, saltHex, timestampIso) ==
    LET r0 == [IdleReg EXCEPT !.body = [token |-> token, paraphrase |-> paraphrase]]
    IN
    IF token.kind = "missing" THEN Finish(r0, ErrorResponse(400, "Missing token."))
    ELSE IF paraphrase = Null \/ paraphrase = ""
         THEN Finish(r0, ErrorResponse(400, "Missing paraphrase."))
    ELSE IF jwtVerify(token).throws
         THEN Finish(r0, ErrorResponse(400, "Invalid or expired token."))
    ELSE LET email == normalizeEmail(jwtVerify(token).email)
             pkg   == BuildPackage(email, paraphrase, saltHex, timestampIso)
         IN
         IF ~isEmail(email) THEN Finish(r0, ErrorResponse(400, "Invalid email in token."))
         ELSE IF contract = Null \/ wallet = Null
              THEN Finish([r0 EXCEPT !.pkg = pkg],
                          Response(200, TRUE, Null, NotConfiguredNote, Null, pkg))
              ELSE [r0 EXCEPT !.pc = "submit", !.pkg = pkg,
                              !.paddedRoot = to0xPadded32(pkg.root)]

\* completeRegistrationHandler up to the anchoring call (handlers.js 173-289)
RegStartResult(token, paraphrase, saltHex, timestampIso) ==
    LET r0 == [IdleReg EXCEPT !.body = [token |-> token, paraphrase |-> paraphrase]]
    IN
    IF token.kind = "missing" THEN Finish(r0, ErrorResponse(400, "Missing token."))
    ELSE IF paraphrase = Null \/ paraphrase = ""
         THEN Finish(r0, ErrorResponse(400, "Missing paraphrase."))
    ELSE IF jwtVerify(token).throws
         THEN Finish(r0, ErrorResponse(400, "Invalid or expired token."))
    ELSE LET email == normalizeEmail(jwtVerify(token).email)
             errs  == paraphraseErrs(paraphrase)
         IN
         IF ~isEmail(email) THEN Finish(r0, ErrorResponse(400, "Invalid email in token."))
         ELSE IF Len(errs) > 0
              THEN Finish(r0, ErrorResponse(400, "Paraphrase needs: " \o Join(errs, ", ")))
         ELSE LET pkg == BuildPackage(email, paraphrase, saltHex, timestampIso)
              IN  IF contract = Null \/ wallet = Null
                  THEN Finish([r0 EXCEPT !.pkg = pkg],
                              Response(200, TRUE, Null,
                                       NotConfiguredNote,
                                       Null, pkg))
                  ELSE [r0 EXCEPT !.pc = "submit", !.pkg = pkg,
                                  !.paddedRoot = to0xPadded32(pkg.root)]

\* txResponse = await contract.anchorRoot(paddedRootHex) (handlers.js 290-302):
\* the transaction is submitted, or the call throws (a transport error, or the
\* gas estimate reverts as the call itself would)
RegSubmitResult(r, submitFails) ==
    IF submitFails \/ Bytes32(r.paddedRoot) = 0
    THEN Finish(r, ErrorResponse(500, "Failed to anchor root on-chain."))
    ELSE [r EXCEPT !.pc = "wait", !.tx = "pending"]

\* the anchoring transaction of request p and its receipt (ethers v6: the
\* receipt carries hash and logs)
TxHash(p) == "0xtx" \o NatToString(p, 10)

Receipt(p, logs) == [hash |-> TxHash(p), logs |-> logs]

\* what await contract.rootToId(paddedRootHex) can give: the call throws, or it
\* returns the value the node that serves the read has for the root, which is
\* the current one or, on a node that has not yet processed the latest blocks,
\* one the mapping had before (0, or an earlier id of the root)
LookupAnswers(root) ==
    { [throws |-> TRUE, value |-> 0] }
    \cup { [throws |-> FALSE, value |-> v] :
             v \in {0} \cup {i \in 1..nextId : RootsAt(i) = root} }

\* the id read back after the confirmed transaction (handlers.js 307-331): the
\* receipt's events are consulted only in the catch of the lookup
AssignedNumId(r, lookup) ==
    IF ~lookup.throws
    THEN LET bn == lookup.value
         IN  IF bn # 0 THEN NatToString(bn, 10) ELSE Null
    ELSE IF Len(r.receipt.logs) > 0
         THEN NatToString(r.receipt.logs[1].uniqId, 10)
         ELSE Null

\* completeRegistrationHandler after the confirmed transaction (handlers.js 304-350);
\* an ethers v6 receipt has no transactionHash, which the template prints as
\* "undefined" (the check mark that opens the source's message is left out)
RegFinishResult(r, lookup) ==
    LET anchorTxHash  == Field(r.receipt, "transactionHash")
        assignedNumId == AssignedNumId(r, lookup)
        uniqAssignedString ==
            IF assignedNumId # Null
            THEN "UNIQ-" \o padStart(assignedNumId, IdPadWidth, "0")
            ELSE Null
        pkg == IF uniqAssignedString # Null
               THEN [r.pkg EXCEPT !.uniq_id = uniqAssignedString]
               ELSE r.pkg
        message == "Root successfully anchored on-chain. Tx Hash: "
                   \o (IF anchorTxHash = Null THEN "undefined" ELSE anchorTxHash)
    IN  Finish([r EXCEPT !.pkg = pkg], Response(200, TRUE, Null, message, anchorTxHash, pkg))

\* ---------------------------------------------------------------- login
NoSession == [absent |-> TRUE]

LoginResponse(status, success, error, uniq_id, uniq_num, token) ==
    [status |-> status, success |-> success, error |-> error,
     message |-> IF success THEN "Login verified on-chain." ELSE Null,
     uniq_id |-> uniq_id, uniq_num |-> uniq_num, token |-> token]

LoginError(status, error) == LoginResponse(status, FALSE, error, Null, 0, NoSession)

IdleLogin == [pc |-> "idle", pkg |-> NoPackage, checked |-> "none", numericId |-> 0,
              ok |-> Returned(FALSE), resp |-> NoResponse]

LoginDone(l, resp) == [l EXCEPT !.pc = "done", !.resp = resp]

required == <<"uniq_id", "email_hash", "parahash", "salt", "timestamp", "root", "leaf",
              "proof", "signer", "signature">>

\* pkg[f] === undefined || pkg[f] === null
IsMissing(pkg, f) ==
    IF f = "proof" THEN FALSE
    ELSE IF f = "signature" THEN pkg[f] = NoSignature
    ELSE pkg[f] = Null

\* String(pkg.uniq_id).match(/^UNIQ-(\d+)$/)
idMatch(uniq_id) ==
    /\ StartsWith(uniq_id, "UNIQ-")
    /\ Len(uniq_id) > 5
    /\ AllCharsOf(DropFirst(uniq_id, 5), DigitClass)

\* the signer comparison, mutated: any recovered address is accepted
SignerMatchesAlways(recovered, signer) == TRUE

\* recovered.toLowerCase() === String(pkg.signer).toLowerCase()
SignerMatches(recovered, signer) == toLowerCase(recovered) = toLowerCase(signer)

\* const canonical = buildPayloadString({...}) of loginHandler (handlers.js 377-384)
loginCanonical(pkg) ==
    buildPayloadString([leaf |-> pkg.leaf, root |-> pkg.root,
                        email_hash |-> pkg.email_hash, parahash |-> pkg.parahash,
                        salt |-> pkg.salt, timestamp |-> pkg.timestamp])

\* loginHandler up to the ledger call (handlers.js 363-410)
LoginStartResult(pkg) ==
    LET l0 == [IdleLogin EXCEPT !.pkg = pkg]
        missing == {i \in 1..Len(required) : IsMissing(pkg, required[i])}
    IN
    IF missing # {}
    THEN LET first == CHOOSE i \in missing : \A j \in missing : i <= j
         IN  LoginDone(l0, LoginError(400, "Missing package field: " \o required[first]))
    ELSE LET canonical == loginCanonical(pkg)
             recovered == verifyMessage(canonical, pkg.signature)
         IN
         IF recovered = Throw
         THEN LoginDone(l0, LoginError(400, "Invalid signature format."))
         ELSE IF ~SignerMatches(recovered, pkg.signer)
         THEN LoginDone(l0, LoginError(400, "Signature not issued by expected signer."))
         ELSE LET l1 == [l0 EXCEPT !.checked = "signature"]
              IN
              IF ~idMatch(pkg.uniq_id)
              THEN LoginDone(l1, LoginError(400, "Invalid or missing uniq_id (anchored id required for on-chain verification)."))
              ELSE LET numericId == DigitsToNat(DropFirst(pkg.uniq_id, 5), 10, 0)
                   IN  IF numericId <= 0
                       THEN LoginDone(l1, LoginError(400, "Invalid numeric uniq id in package."))
                       ELSE IF provider = Null \/ "CONTRACT_ADDR" \notin env
                       THEN LoginDone(l1, LoginError(500,
                                "Contract/provider not configured on server."))
                       ELSE [l1 EXCEPT !.pc = "verify", !.checked = "id",
                                       !.numericId = numericId]

\* loginHandler from the ledger call on (handlers.js 410-425)
LoginVerifyResult(l) ==
    LET pkg == l.pkg
    IN
    IF ~IsBytes32Hex(pkg.leaf) \/ \E i \in 1..Len(pkg.proof) : ~IsBytes32Hex(pkg.proof[i])
    THEN LoginDone(l, LoginError(500, "On-chain verification failed."))
    ELSE LET ok == verifyUser(l.numericId, Bytes32(pkg.leaf),
                              [i \in 1..Len(pkg.proof) |-> Bytes32(pkg.proof[i])])
             l1 == [l EXCEPT !.ok = ok, !.checked = "ledger"]
         IN
         IF ok.reverted
         THEN LoginDone(l1, LoginError(500, "On-chain verification failed."))
         ELSE IF ~ok.value
         THEN LoginDone(l1, LoginError(400, "Proof not valid against on-chain root."))
         ELSE LoginDone(l1, LoginResponse(200, TRUE, Null, pkg.uniq_id, l.numericId,
                                [uniq_id |-> pkg.uniq_id, uniq_num |-> l.numericId]))

\* ================================================================ inputs
EnvConfigs == { {"SEP_RPC", "CONTRACT_ADDR", "DEPLOYER_PRIVATE_KEY"},
                {"SEP_RPC", "CONTRACT_ADDR"},
                {"SEP_RPC", "DEPLOYER_PRIVATE_KEY"},
                {} }

TokenInputs == { Token("missing", Null), Token("invalid", Null),
                 Token("expired", "user@example.com"), Token("valid", "user@example.com"),
                 Token("valid", "not-an-email") }

ParaphraseInputs == { Null, "weak", "Str0ng!Pass" }

\* '0x' + crypto.randomBytes(16).toString('hex')
SaltInputs == { "0x00112233445566778899aabbccddeeff" }

\* new Date().toISOString()
TimestampInputs == { "2024-01-01T00:00:00.000Z" }

\* roots that parties other than the server submit to anchorRoot
ExtRoots == { 0, 2, 6 }

\* the complete-registration requests that can be in flight at the same time
RegIds == { 1, 2 }

PaddedHexOf(n) == "0x" \o padStart(NatToString(n, 16), HexWidth, "0")

\* the packages that can be presented to login: a package returned by
\* complete-registration, as it is or with fields replaced
OtherSalt(salt) == IF salt = "0x00112233445566778899aabbccddeeff"
                   THEN "0xa1b2c3d4e5f60718293a4b5c6d7e8f90"
                   ELSE "0x00112233445566778899aabbccddeeff"

\* a field value that differs from v
OtherHex(v) == "0x" \o NatToString((BigIntOfHex(v) + 1) % FieldModulus, 16)

OtherWord(v) == PaddedHexOf((BigIntOfHex(v) + 1) % FieldModulus)

SignedFields == {"leaf", "root", "email_hash", "parahash", "salt", "timestamp"}

Replacement(pkg, f) ==
    CASE f = "leaf"       -> OtherWord(pkg.leaf)
      [] f = "root"       -> OtherWord(pkg.root)
      [] f = "email_hash" -> OtherHex(pkg.email_hash)
      [] f = "parahash"   -> OtherHex(pkg.parahash)
      [] f = "salt"       -> OtherSalt(pkg.salt)
      [] f = "timestamp"  -> "2025-06-30T12:00:00.000Z"

DisplayId(n) == "UNIQ-" \o padStart(NatToString(n, 10), IdPadWidth, "0")

\* one of the signed fields replaced by a different value
SingleFieldTampered(pkg) == { [pkg EXCEPT ![f] = Replacement(pkg, f)] : f \in SignedFields }

\* the salt replaced by a value that differs from it in letter case only
CaseTampered(pkg) ==
    { [pkg EXCEPT !.salt = s] : s \in { "0x00112233445566778899AABBCCDDEEFF" } \ {pkg.salt} }

\* the id replaced by another id (0, an assigned one, or the next unassigned one),
\* with the leaf kept or replaced by that id's publicly readable root, or by
\* text that is not an id
IdTampered(pkg) ==
    { [pkg EXCEPT !.uniq_id = DisplayId(n)] : n \in 0..(nextId + 1) }
    \cup { [pkg EXCEPT !.uniq_id = "UNIQ-1x"] }
    \cup { [pkg EXCEPT !.uniq_id = DisplayId(n), !.leaf = PaddedHexOf(getRoot(n))] :
             n \in 1..(nextId + 1) }

\* a package nobody registered: made up for an id of the ledger from that id's
\* publicly readable root, signed with a key of the maker, whose address it
\* declares as signer
SelfSigned(n, key) ==
    LET word == PaddedHexOf(getRoot(n))
        f    == [leaf |-> word, root |-> word, email_hash |-> "0x1", parahash |-> "0x2",
                 salt |-> "0xa1b2c3d4e5f60718293a4b5c6d7e8f90",
                 timestamp |-> "2025-06-30T12:00:00.000Z"]
    IN  [uniq_id |-> DisplayId(n),
         email_hash |-> f.email_hash, email_hash_dec |-> hexToDecString(f.email_hash),
         parahash |-> f.parahash, parahash_dec |-> hexToDecString(f.parahash),
         salt |-> f.salt, timestamp |-> f.timestamp,
         root |-> word, root_dec |-> hexToDecString(word),
         leaf |-> word, leaf_dec |-> hexToDecString(word),
         proof |-> <<>>,
         signer |-> AddressOf(key),
         signature |-> signMessage(key, buildPayloadString(f))]

SelfSignedPackages == { SelfSigned(n, OtherKey) : n \in 1..nextId }

PresentablePackages ==
    SelfSignedPackages
    \cup (IF held = NoPackage THEN {}
          ELSE {held} \cup SingleFieldTampered(held) \cup CaseTampered(held)
               \cup IdTampered(held))

\* =============================================================== actions
NoCall == [root |-> 0, sender |-> Null, ok |-> FALSE, id |-> 0]

NoView == [fn |-> "none"]

\* no call of buildPayloadString under observation
NoEncoding == [done |-> TRUE]

\* requests that call a hashing helper
Callers == {1, 2, 3}

\* a caller that has not called yet
IdleCaller == [pc |-> "idle", helper |-> "none", build |-> 0, got |-> 0]

\* both modules as loaded: merkle's let poseidonInstance = null (0 here; the
\* instance of the k-th buildPoseidon call is k), no build started there;
\* handlers.js has called buildPoseidon once for poseidonPromise; nobody calling
IdleEngine == [poseidonInstance |-> 0, built |-> 0, promiseBuilt |-> 1,
               callers |-> [c \in Callers |-> IdleCaller]]

\* a freshly deployed ledger and a freshly started server process
InitState(envs, encodings, engines) ==
    /\ nextId = 0
    /\ roots = <<>>
    /\ rootToId = <<>>
    /\ eventLog = <<>>
    /\ lastCall = NoCall
    /\ env \in envs
    /\ orphans = <<>>
    /\ reg = [p \in RegIds |-> IdleReg]
    /\ held = NoPackage
    /\ login = IdleLogin
    /\ lastView = NoView
    /\ emailCheck = NoResponse
    /\ enc \in encodings
    /\ engine \in engines

Init == InitState(EnvConfigs, {NoEncoding}, {IdleEngine})

\* A finished request's record is kept for one state, the response as sent, and
\* is dropped before the next event: a finished request takes no further part.
Quiet ==
    /\ \A p \in RegIds : reg[p].pc # "done"
    /\ login.pc # "done"
    /\ lastView = NoView
    /\ emailCheck = NoResponse

\* anchoring transactions submitted and not yet mined
Pending == Cardinality({p \in RegIds : reg[p].tx = "pending"}) + Len(orphans)

\* a complete-registration request arrives and runs up to the wait for its
\* anchoring transaction
RegStartFrom(p, paraphrases) ==
    /\ Quiet
    /\ reg[p].pc = "idle"
    /\ \A q \in RegIds : q < p => reg[q].pc # "idle"
    /\ \E token \in TokenInputs, paraphrase \in paraphrases,
          saltHex \in SaltInputs, timestampIso \in TimestampInputs, submitFails \in BOOLEAN :
          LET r == RegStartResult(token, paraphrase, saltHex, timestampIso)
          IN  /\ (r.pc = "submit" /\ ~submitFails) => nextId + Pending < MaxId
              /\ reg' = [reg EXCEPT ![p] = IF r.pc = "submit"
                                           THEN RegSubmitResult(r, submitFails)
                                           ELSE r]
    /\ UNCHANGED <<ledgerVars, lastCall, env, orphans, held, login, lastView, emailCheck, enc, engine>>

RegStart(p) == RegStartFrom(p, ParaphraseInputs)

\* the submitted transaction of request p is mined: the contract runs anchorRoot
TxMine(p) ==
    /\ Quiet
    /\ reg[p].tx = "pending"
    /\ anchorRoot(Bytes32(reg[p].paddedRoot), AddressOf(ServerKey))
    /\ reg' = [reg EXCEPT ![p].tx = "mined",
                          ![p].receipt = Receipt(p, SubSeq(eventLog', Len(eventLog) + 1,
                                                           Len(eventLog')))]
    /\ UNCHANGED <<env, orphans, held, login, lastView, emailCheck, enc, engine>>

\* a transaction whose request has ended is mined all the same
TxMineOrphan ==
    /\ Quiet
    /\ Len(orphans) > 0
    /\ \E i \in 1..Len(orphans) :
          /\ anchorRoot(orphans[i], AddressOf(ServerKey))
          /\ orphans' = SubSeq(orphans, 1, i - 1) \o SubSeq(orphans, i + 1, Len(orphans))
    /\ UNCHANGED <<env, reg, held, login, lastView, emailCheck, enc, engine>>

\* the catch of the anchoring block, mutated: when the wait throws, the handler
\* submits anchorRoot again and goes on waiting
RegWaitFailResubmit(p) ==
    /\ Quiet
    /\ reg[p].pc = "wait"
    /\ orphans' = IF reg[p].tx = "pending"
                  THEN Append(orphans, Bytes32(reg[p].paddedRoot))
                  ELSE orphans
    /\ reg' = [reg EXCEPT ![p].tx = "pending", ![p].receipt = NoReceipt]
    /\ UNCHANGED <<ledgerVars, lastCall, env, held, login, lastView, emailCheck, enc, engine>>

\* receipt = await txResponse.wait() throws (failed or timed-out confirmation)
RegWaitFail(p) ==
    /\ Quiet
    /\ reg[p].pc = "wait"
    /\ reg' = [reg EXCEPT ![p] =
                Finish(reg[p], ErrorResponse(500, "Failed to anchor root on-chain."))]
    /\ UNCHANGED <<ledgerVars, lastCall, env, orphans, held, login, lastView, emailCheck, enc, engine>>

\* the wait returns the receipt; the id is read back and the response is sent
RegFinish(p) ==
    /\ Quiet
    /\ reg[p].pc = "wait"
    /\ reg[p].tx = "mined"
    /\ \E lookup \in LookupAnswers(Bytes32(reg[p].paddedRoot)) :
          reg' = [reg EXCEPT ![p] = RegFinishResult(reg[p], lookup)]
    /\ UNCHANGED <<ledgerVars, lastCall, env, orphans, held, login, lastView, emailCheck, enc, engine>>

\* the response of request p is delivered; login requests from now on present
\* the package it carries, or go on presenting the one returned before
RegReturn(p) ==
    /\ reg[p].pc = "done"
    /\ held' \in IF reg[p].resp.success THEN {held, reg[p].resp.package} ELSE {held}
    /\ orphans' = IF reg[p].tx = "pending"
                  THEN Append(orphans, Bytes32(reg[p].paddedRoot))
                  ELSE orphans
    /\ reg' = [reg EXCEPT ![p] = IdleReg]
    /\ UNCHANGED <<ledgerVars, lastCall, env, login, lastView, emailCheck, enc, engine>>

\* loginHandler (handlers.js 363-431)
\* login, mutated: the ledger is asked first, the signature is checked after
LoginResultLedgerFirst(pkg) ==
    IF pkg.uniq_id # Null /\ idMatch(pkg.uniq_id) /\ provider # Null /\ "CONTRACT_ADDR" \in env
    THEN LET asked == LoginVerifyResult(
                          [IdleLogin EXCEPT !.pkg = pkg,
                                            !.numericId = DigitsToNat(DropFirst(pkg.uniq_id, 5), 10, 0)])
             l     == LoginStartResult(pkg)
         IN  IF l.pc = "verify" THEN asked
             ELSE [l EXCEPT !.checked = asked.checked, !.ok = asked.ok]
    ELSE LoginStartResult(pkg)

LoginResult(pkg) ==
    LET l == LoginStartResult(pkg)
    IN  IF l.pc = "verify" THEN LoginVerifyResult(l) ELSE l

\* login, mutated: the handler refuses while a registration is being handled
LoginBusy ==
    /\ Quiet
    /\ \E pkg \in PresentablePackages :
          login' = IF \E p \in RegIds : reg[p].pc # "idle"
                   THEN LoginDone([IdleLogin EXCEPT !.pkg = pkg], LoginError(500, "Server error"))
                   ELSE LoginResult(pkg)
    /\ UNCHANGED <<ledgerVars, lastCall, env, orphans, reg, held, lastView, emailCheck, enc, engine>>

\* a login request arrives and is answered
Login ==
    /\ Quiet
    /\ \E pkg \in PresentablePackages : login' = LoginResult(pkg)
    /\ UNCHANGED <<ledgerVars, lastCall, env, orphans, reg, held, lastView, emailCheck, enc, engine>>

LoginReturn ==
    /\ login.pc = "done"
    /\ login' = IdleLogin
    /\ UNCHANGED <<ledgerVars, lastCall, env, orphans, reg, held, lastView, emailCheck, enc, engine>>

\* another party calls anchorRoot directly
ExtAnchorRoot ==
    /\ Quiet
    /\ \E root \in ExtRoots :
          /\ root # 0 => nextId + Pending < MaxId
          /\ anchorRoot(root, AddressOf(OtherKey))
    /\ UNCHANGED <<env, orphans, reg, held, login, lastView, emailCheck, enc, engine>>

\* another party makes a read-only call
ExtView ==
    /\ Quiet
    /\ \/ \E id \in 0..(nextId + 1), leaf \in ExtRoots, proof \in {<<>>} :
             lastView' = [fn |-> "verifyUser", id |-> id, leaf |-> leaf, proof |-> proof,
                          result |-> verifyUser(id, leaf, proof)]
       \/ \E id \in 0..(nextId + 1) :
             lastView' = [fn |-> "getRoot", id |-> id, result |-> getRoot(id)]
       \/ \E root \in ExtRoots :
             lastView' = [fn |-> "rootToId", root |-> root, result |-> RootToIdAt(root)]
    /\ UNCHANGED <<ledgerVars, lastCall, env, orphans, reg, held, login, emailCheck, enc, engine>>

ViewReturn ==
    /\ lastView # NoView
    /\ lastView' = NoView
    /\ UNCHANGED <<ledgerVars, lastCall, env, orphans, reg, held, login, emailCheck, enc, engine>>

\* the emails sent to register-email
EmailInputs == { Null, "not-an-email", "User@Example.COM" }

\* a register-email request arrives and is answered
RegisterEmail ==
    /\ Quiet
    /\ \E email \in EmailInputs, sendFails \in BOOLEAN :
          emailCheck' = registerEmailResult(email, sendFails)
    /\ UNCHANGED <<ledgerVars, lastCall, env, orphans, reg, held, login, lastView, enc, engine>>

\* a verify-email request arrives and is answered
VerifyEmail ==
    /\ Quiet
    /\ \E token \in TokenInputs : emailCheck' = verifyEmailResult(token)
    /\ UNCHANGED <<ledgerVars, lastCall, env, orphans, reg, held, login, lastView, enc, engine>>

VerifyEmailReturn ==
    /\ emailCheck # NoResponse
    /\ emailCheck' = NoResponse
    /\ UNCHANGED <<ledgerVars, lastCall, env, orphans, reg, held, login, lastView, enc, engine>>

Next ==
    \/ RegisterEmail
    \/ VerifyEmail
    \/ VerifyEmailReturn
    \/ \E p \in RegIds : RegStart(p)
    \/ \E p \in RegIds : TxMine(p)
    \/ TxMineOrphan
    \/ \E p \in RegIds : RegWaitFail(p)
    \/ \E p \in RegIds : RegFinish(p)
    \/ \E p \in RegIds : RegReturn(p)
    \/ Login
    \/ LoginReturn
    \/ ExtAnchorRoot
    \/ ExtView
    \/ ViewReturn

Spec == Init /\ [][Next]_vars

\* ------------------------------- the passphrase policy of registration
\* a passphrase for every combination of the five rules: an upper-case letter,
\* a lower-case letter, a digit and a symbol each present or not, padded with
\* a character of no class to 8 characters or left shorter
PolicyParaphrases ==
    { (IF "U" \in k THEN "A" ELSE "") \o (IF "L" \in k THEN "a" ELSE "")
      \o (IF "D" \in k THEN "1" ELSE "") \o (IF "S" \in k THEN "!" ELSE "")
      \o (IF "8" \in k THEN "--------" ELSE "-") : k \in SUBSET {"U", "L", "D", "S", "8"} }
    \cup { "", "weak" }

PolicyRegStart(p) == RegStartFrom(p, PolicyParaphrases)

NextPolicy ==
    \/ \E p \in RegIds : PolicyRegStart(p)
    \/ \E p \in RegIds : RegReturn(p)

SpecPolicy == Init /\ [][NextPolicy]_vars

\* ------------------------------------------- the canonical encoder alone
\* field records as the handlers pass them to buildPayloadString: hex strings as
\* registration computes them or as a holder presents them (any letter case),
\* ISO timestamps, and the root present or absent
EncLeaves == { PaddedHexOf(10), PaddedHexOf(11) }

EncRoots == { Null, PaddedHexOf(10), "0x" \o padStart("A", HexWidth, "0") }

EncEmailHashes == { "0x1a", "0x1A", "0x1b" }

EncParaHashes == { "0x4", "0x3" }

EncSalts == { "0x00112233445566778899aabbccddeeff", "0xa1b2c3d4e5f60718293a4b5c6d7e8f90" }

EncTimestamps == { "2024-01-01T00:00:00.000Z", "2025-06-30T12:00:00.000Z" }

EncRecords ==
    [leaf : EncLeaves, root : EncRoots, email_hash : EncEmailHashes,
     parahash : EncParaHashes, salt : EncSalts, timestamp : EncTimestamps]

\* a record as the caller builds it: an absent root is a key left out
AsArgument(r) ==
    IF r.root = Null
    THEN [leaf |-> r.leaf, email_hash |-> r.email_hash, parahash |-> r.parahash,
          salt |-> r.salt, timestamp |-> r.timestamp]
    ELSE r

EncodingInputs ==
    { [done |-> FALSE, a |-> a, b |-> b, outA |-> Null, outB |-> Null] :
        a \in EncRecords, b \in EncRecords }

InitEncoder ==
    InitState({{"SEP_RPC", "CONTRACT_ADDR", "DEPLOYER_PRIVATE_KEY"}}, EncodingInputs, {IdleEngine})

\* buildPayloadString is applied to both records
Encode ==
    /\ ~enc.done
    /\ enc' = [enc EXCEPT !.done = TRUE,
                          !.outA = buildPayloadString(AsArgument(enc.a)),
                          !.outB = buildPayloadString(AsArgument(enc.b))]
    /\ UNCHANGED <<ledgerVars, lastCall, env, orphans, reg, held, login, lastView,
                   emailCheck, engine>>

NextEncoder == Encode

SpecEncoder == InitEncoder /\ [][NextEncoder]_vars

\* ----------------------------- the commitment of a registration run alone
CommitEmails == { "user@example.com", " User@Example.COM", "other@example.com" }

CommitParaphrases == { "Str0ng!Pass", "Pass!Str0ng" }

\* `RND-${crypto.randomBytes(6).toString('hex')}-${Date.now()}`
CommitClientTags == { "RND-0a1b2c3d4e5f-1704067200000", "RND-f5e4d3c2b1a0-1751284800000" }

\* what one run of complete-registration draws: the token's email, the
\* passphrase, and the salt, timestamp and client tag it generates
CommitRuns ==
    [email : CommitEmails, paraphrase : CommitParaphrases, salt : EncSalts,
     timestamp : EncTimestamps, clientTag : CommitClientTags]

CommitInputs ==
    { [done |-> FALSE, a |-> a, b |-> b, outA |-> Null, outB |-> Null] :
        a \in CommitRuns, b \in CommitRuns }

InitCommit ==
    InitState({{"SEP_RPC", "CONTRACT_ADDR", "DEPLOYER_PRIVATE_KEY"}}, CommitInputs, {IdleEngine})

\* the hashing part of completeRegistrationHandler (handlers.js 184-274) for
\* one run, the root as it is passed to anchorRoot (handlers.js 291), and what
\* the merkle module's helpers give for the same hashes; clientTag is computed
\* (handlers.js 219) and used nowhere
CommitOf(run) ==
    LET pkg == BuildPackage(normalizeEmail(run.email), run.paraphrase, run.salt, run.timestamp)
    IN  [package |-> pkg,
         paddedRootHex |-> to0xPadded32(pkg.root),
         helperLeaf |-> leafFromFields(pkg),
         helperRoot |-> singleLeafRoot(BigIntOfHex(pkg.leaf))]

\* both runs are carried out
Commit ==
    /\ ~enc.done
    /\ enc' = [enc EXCEPT !.done = TRUE, !.outA = CommitOf(enc.a), !.outB = CommitOf(enc.b)]
    /\ UNCHANGED <<ledgerVars, lastCall, env, orphans, reg, held, login, lastView,
                   emailCheck, engine>>

NextCommit == Commit

SpecCommit == InitCommit /\ [][NextCommit]_vars

\* ------------------------------------- the initialisation of the hash engine
InitEngine ==
    InitState({{"SEP_RPC", "CONTRACT_ADDR", "DEPLOYER_PRIVATE_KEY"}}, {NoEncoding}, {IdleEngine})

EngineUnchanged ==
    UNCHANGED <<ledgerVars, lastCall, env, orphans, reg, held, login, lastView, emailCheck, enc>>

\* caller c calls getPoseidon (through leafFromFields or singleLeafRoot): it
\* runs to the await, starting a build if poseidonInstance is still null, or
\* returns the instance
GetPoseidonCall(c) ==
    /\ engine.callers[c].pc = "idle"
    /\ IF engine.poseidonInstance = 0
       THEN engine' = [engine EXCEPT !.built = @ + 1,
                                     !.callers[c] = [pc |-> "await", helper |-> "merkle",
                                                     build |-> engine.built + 1, got |-> 0]]
       ELSE engine' = [engine EXCEPT !.callers[c] = [pc |-> "done", helper |-> "merkle",
                                                     build |-> 0,
                                                     got |-> engine.poseidonInstance]]
    /\ EngineUnchanged

\* the build awaited by caller c completes: poseidonInstance = <the instance>;
\* return poseidonInstance
GetPoseidonResume(c) ==
    /\ engine.callers[c].pc = "await" /\ engine.callers[c].helper = "merkle"
    /\ engine' = [engine EXCEPT !.poseidonInstance = engine.callers[c].build,
                                 !.callers[c].pc = "done",
                                 !.callers[c].got = engine.callers[c].build]
    /\ EngineUnchanged

\* caller c calls poseidonHashHexFromUtf8 or poseidonHashHexFromFieldHex of
\* handlers.js and reaches await poseidonPromise
PromiseAwait(c) ==
    /\ engine.callers[c].pc = "idle"
    /\ engine' = [engine EXCEPT !.callers[c] = [pc |-> "await", helper |-> "handlers",
                                                 build |-> 0, got |-> 0]]
    /\ EngineUnchanged

\* the promise is fulfilled with the one instance built when the module loaded
PromiseResume(c) ==
    /\ engine.callers[c].pc = "await" /\ engine.callers[c].helper = "handlers"
    /\ engine' = [engine EXCEPT !.callers[c].pc = "done",
                                 !.callers[c].got = engine.promiseBuilt]
    /\ EngineUnchanged

NextEngine ==
    \/ \E c \in Callers : GetPoseidonCall(c)
    \/ \E c \in Callers : GetPoseidonResume(c)
    \/ \E c \in Callers : PromiseAwait(c)
    \/ \E c \in Callers : PromiseResume(c)

SpecEngine == InitEngine /\ [][NextEngine]_vars

\* ================================================================ claims
\* the ids at which a root is stored
IdsOf(r) == {i \in 1..nextId : RootsAt(i) = r}

Max(S) == CHOOSE m \in S : \A x \in S : x <= m

\* the roots a ledger state can hold
Words == 0..(FieldModulus - 1)

\* an anchorRoot call was executed in this step
Called == lastCall' # lastCall \/ ledgerVars' # ledgerVars

\* C1: on a ledger deployed fresh, the k-th successful anchorRoot call returns
\* id k, whatever roots are anchored: every successful call emits one
\* RootAnchored event carrying the id it returns, so the k-th event carries k,
\* the counter equals the number of successful calls, the call executed last
\* returned the counter, and a step in which the counter moves is a successful
\* call that moved it by exactly one; a rejected call leaves the counter alone.
C1_IdsCountSuccessfulCalls ==
    /\ [](/\ nextId = Len(eventLog)
          /\ \A k \in 1..Len(eventLog) : eventLog[k].uniqId = k
          /\ lastCall.ok => lastCall.id >= 1 /\ lastCall.id <= nextId)
    /\ [][/\ nextId' # nextId =>
               /\ nextId' = nextId + 1
               /\ lastCall'.ok /\ lastCall'.id = nextId'
               /\ Len(eventLog') = Len(eventLog) + 1
          /\ (Called /\ ~lastCall'.ok) => nextId' = nextId
          /\ (Called /\ lastCall'.ok) => lastCall'.id = nextId + 1]_vars

\* three successful calls, the first two with distinct roots and the last two
\* with equal roots, followed by a rejected call
C1_Witness ==
    /\ nextId >= 3
    /\ RootsAt(1) # RootsAt(2)
    /\ RootsAt(2) = RootsAt(3)
    /\ lastCall.sender # Null /\ ~lastCall.ok

\* C2: two successful anchorRoot calls with the same root r, made one after the
\* other or for two racing registration requests, are assigned distinct ids
\* i < j, and in every state from then on verifyUser(i, r, []) and
\* verifyUser(j, r, []) both return true.
C2_SameRootTwiceBothVerifiable ==
    \A a, b \in 1..Len(eventLog) :
        (a < b /\ eventLog[a].root = eventLog[b].root) =>
            /\ eventLog[a].uniqId < eventLog[b].uniqId
            /\ verifyUser(eventLog[a].uniqId, eventLog[a].root, <<>>) = Returned(TRUE)
            /\ verifyUser(eventLog[b].uniqId, eventLog[b].root, <<>>) = Returned(TRUE)

\* two registration requests, both still in flight, had the same root anchored,
\* and a further root was anchored after them
C2_Witness ==
    /\ \A p \in RegIds : reg[p].pc = "wait" /\ reg[p].tx = "mined"
    /\ reg[1].paddedRoot = reg[2].paddedRoot
    /\ reg[1].receipt.logs[1].uniqId # reg[2].receipt.logs[1].uniqId
    /\ nextId >= 3

\* C3: the forward record is append-only. In every step, each roots[id] written
\* before keeps its value; a step that changes the ledger at all is one
\* successful anchorRoot, which changes nextId (by one), roots[nextId'] and
\* rootToId[root] and nothing else of the storage; steps of login requests,
\* of read-only calls and of registration requests that mine no transaction
\* leave the ledger as it is.
C3_ForwardRecordAppendOnly ==
    [][/\ \A id \in 1..nextId : ReadMapping(roots', id) = RootsAt(id)
       /\ <<nextId, roots, rootToId>>' # <<nextId, roots, rootToId>> =>
            /\ nextId' = nextId + 1
            /\ lastCall'.ok /\ lastCall'.root # 0
            /\ DOMAIN roots' = DOMAIN roots \cup {nextId'}
            /\ roots'[nextId'] = lastCall'.root
            /\ ReadMapping(rootToId', lastCall'.root) = nextId'
            /\ \A r \in Words \ {lastCall'.root} :
                    ReadMapping(rootToId', r) = RootToIdAt(r)
       /\ (login' # login \/ lastView' # lastView \/ held' # held) =>
            UNCHANGED ledgerVars
       /\ (reg' # reg /\ \A p \in RegIds : reg'[p].tx = reg[p].tx) =>
            UNCHANGED ledgerVars]_vars

\* the first record is intact after its root was anchored again, another root
\* was anchored, and a login request had the ledger verify a leaf
C3_Witness ==
    /\ nextId >= 3
    /\ RootsAt(1) = eventLog[1].root
    /\ \E j \in 2..nextId : RootsAt(j) = RootsAt(1)
    /\ \E j \in 2..nextId : RootsAt(j) # RootsAt(1)
    /\ login.pc = "done" /\ login.checked = "ledger"

\* C4: for every root r, rootToId[r] is 0 if r was never anchored and otherwise
\* the largest id i with roots[i] = r; in particular a non-zero rootToId[r]
\* names an id whose stored root is r.
C4_ReverseLookupLastWriterWins ==
    \A r \in Words :
        /\ RootToIdAt(r) = IF IdsOf(r) = {} THEN 0 ELSE Max(IdsOf(r))
        /\ RootToIdAt(r) # 0 => RootsAt(RootToIdAt(r)) = r

\* a root anchored at two ids, looked up at the later one, with another root
\* anchored in between
C4_Witness ==
    \E i, j, k \in 1..nextId :
        /\ i < k /\ k < j
        /\ RootsAt(i) = RootsAt(j) /\ RootsAt(k) # RootsAt(i)
        /\ RootToIdAt(RootsAt(i)) = j

\* C5: anchorRoot with the all-zero root is rejected, and the rejected call
\* leaves nextId, roots and rootToId unchanged and emits no RootAnchored event;
\* so no record and no event ever carries the zero root.
C5_ZeroRootRejected ==
    /\ [](/\ \A id \in 1..nextId : RootsAt(id) # 0
          /\ \A k \in 1..Len(eventLog) : eventLog[k].root # 0
          /\ RootToIdAt(0) = 0
          /\ (lastCall.sender # Null /\ lastCall.root = 0) => ~lastCall.ok)
    /\ [][(Called /\ lastCall'.root = 0) =>
                /\ ~lastCall'.ok
                /\ UNCHANGED <<nextId, roots, rootToId, eventLog>>]_vars

\* a zero-root call was rejected on a ledger that holds records
C5_Witness ==
    /\ lastCall.sender # Null /\ lastCall.root = 0 /\ ~lastCall.ok
    /\ nextId >= 2

\* C6: for every id with 1 <= id <= nextId and every leaf, verifyUser with the
\* empty proof returns (does not revert), and returns true if and only if the
\* leaf equals roots[id]; the read-only calls made from outside agree.
C6_EmptyProofVerifiesExactlyTheRoot ==
    /\ \A id \in 1..nextId : \A leaf \in Words :
          verifyUser(id, leaf, <<>>) = Returned(leaf = RootsAt(id))
    /\ (lastView.fn = "verifyUser" /\ lastView.id \in 1..nextId /\ lastView.proof = <<>>) =>
          lastView.result = Returned(lastView.leaf = RootsAt(lastView.id))

\* a call with an anchored root as leaf returned false, for an id that stores
\* another root
C6_Witness ==
    /\ lastView.fn = "verifyUser" /\ lastView.proof = <<>>
    /\ lastView.id \in 1..nextId
    /\ lastView.leaf # RootsAt(lastView.id) /\ RootToIdAt(lastView.leaf) # 0
    /\ lastView.result = Returned(FALSE)
    /\ verifyUser(RootToIdAt(lastView.leaf), lastView.leaf, <<>>) = Returned(TRUE)

\* the numeric id of a display id of the form UNIQ-<digits>, 0 for any other
NumericIdOf(uniq_id) ==
    IF uniq_id # Null /\ idMatch(uniq_id) THEN DigitsToNat(DropFirst(uniq_id, 5), 10, 0) ELSE 0

\* a login response that opens a session
SessionIssued(resp) == resp.success \/ resp.token # NoSession \/ resp.status = 200

\* C7: verifyUser with an id outside 1..nextId reverts on the id check, for
\* any leaf and proof, so it never returns true; and a login request whose
\* package names such an id is answered with a rejection and no session: for
\* id 0 before the ledger is called, for an id beyond nextId by the call's
\* failure.
C7_OutOfRangeIdNeverVerifies ==
    /\ \A id \in {0} \cup ((nextId + 1)..(MaxId + 1)) :
          \A leaf \in Words : \A proof \in {<<>>, <<leaf>>, <<2, 6>>} :
              verifyUser(id, leaf, proof) = Reverted
    /\ (lastView.fn = "verifyUser" /\ lastView.id \notin 1..nextId) =>
          lastView.result = Reverted
    /\ (login.pc = "done" /\ NumericIdOf(login.pkg.uniq_id) \notin 1..nextId) =>
          /\ ~SessionIssued(login.resp)
          /\ login.resp.status \in {400, 500}
          /\ login.checked = "ledger" => login.ok = Reverted

\* a login request with a validly signed package and the first unassigned id
\* reached the ledger, whose call failed, and was answered 500
C7_Witness ==
    /\ login.pc = "done" /\ login.checked = "ledger"
    /\ login.numericId = nextId + 1 /\ nextId >= 1
    /\ login.ok = Reverted
    /\ login.resp.status = 500 /\ login.resp.token = NoSession

\* C8: a login request presenting, unmodified, a package that
\* complete-registration returned with a non-null uniq_id is issued a session
\* whose uniq_num is the numeric id in the package, in whatever state the
\* ledger is by then.
C8_ReturnedPackageLogsIn ==
    (login.pc = "done" /\ login.pkg = held /\ held.uniq_id # Null) =>
        /\ login.resp.status = 200 /\ login.resp.success
        /\ login.resp.token # NoSession
        /\ login.resp.uniq_num = NumericIdOf(held.uniq_id)
        /\ login.resp.token.uniq_num = NumericIdOf(held.uniq_id)
        /\ login.resp.uniq_num \in 1..nextId

\* the package was returned with an id, further roots were anchored since, the
\* reverse lookup of its root has moved on, and the login succeeded
C8_Witness ==
    /\ login.pc = "done" /\ login.pkg = held /\ held.uniq_id # Null
    /\ login.resp.token # NoSession
    /\ nextId > login.resp.uniq_num
    /\ RootToIdAt(Bytes32(held.root)) # login.resp.uniq_num
    /\ \E i \in 1..nextId : RootsAt(i) # Bytes32(held.root)

\* the package carried by a successful complete-registration response
Returned200(p) == reg[p].pc = "done" /\ reg[p].resp.success

\* the canonical payload rebuilt from the package's own fields as login does,
\* and the signer recovered from it and the package's signature, is the
\* package's declared signer
RoundTrips(pkg) ==
    LET recovered == verifyMessage(loginCanonical(pkg), pkg.signature)
    IN  /\ pkg.signer # Null
        /\ recovered # Throw
        /\ SignerMatches(recovered, pkg.signer)
        /\ recovered = pkg.signer

SignatureErrors == {"Invalid signature format.", "Signature not issued by expected signer."}

\* C9, as stated: for every package returned by complete-registration,
\* recovering the signer from the rebuilt canonical payload and the package's
\* signature yields the package's signer.
C9_EveryReturnedPackageRoundTrips ==
    \A p \in RegIds : Returned200(p) => RoundTrips(reg[p].resp.package)

\* C9, amended: for every package that complete-registration returns with a
\* signature (the signing wallet is configured), recovering the signer from the
\* rebuilt canonical payload and the package's signature yields the package's
\* signer, before and after the id is filled in; and login's signature step
\* rejects no unmodified returned package.
C9_SignedPackageRoundTrips ==
    /\ \A p \in RegIds :
          (Returned200(p) /\ reg[p].resp.package.signature # NoSignature) =>
              RoundTrips(reg[p].resp.package)
    /\ (held # NoPackage /\ held.signature # NoSignature) => RoundTrips(held)
    /\ (login.pc = "done" /\ login.pkg = held) => login.resp.error \notin SignatureErrors

\* a signed package was returned with its id filled in, and a login presenting
\* it passed the signature step
C9_Witness ==
    /\ login.pc = "done" /\ login.pkg = held
    /\ held.signature # NoSignature /\ held.uniq_id # Null
    /\ login.checked # "none"
    /\ RoundTrips(held)

\* C10, as stated: replacing the value of one of leaf, root, email_hash,
\* parahash, salt, timestamp of a generated package by a different value makes
\* login's signature check reject the package. Stated for packages that reach
\* the signature check (returned signed and with an id).
C10_SingleFieldTamperRejectedBySignature ==
    (/\ login.pc = "done"
     /\ held # NoPackage /\ held.signature # NoSignature /\ held.uniq_id # Null
     /\ login.pkg \in SingleFieldTampered(held)) =>
        /\ login.checked = "none"
        /\ login.resp.error \in SignatureErrors

\* the value of a field after the encoder's normalization; an absent root
\* stays absent
Normalized(v) == IF v = Null THEN Null ELSE toLowerCase(v)

EncodedFields == {"leaf", "root", "email_hash", "parahash", "salt", "timestamp"}

AgreeNormalized(a, b) == \A f \in EncodedFields : Normalized(a[f]) = Normalized(b[f])

\* C11, as stated: for any two field records {leaf, root, email_hash, parahash,
\* salt, timestamp}, buildPayloadString returns the same string if and only if
\* the records agree on every one of these fields after lower-casing, an absent
\* root differing from every present root.
C11_EncoderInjectiveUpToNormalization ==
    (enc # NoEncoding /\ enc.done) =>
        ((enc.outA = enc.outB) <=> AgreeNormalized(enc.a, enc.b))

\* request p ended after its anchoring was attempted and failed: the package
\* was built and signed, and no receipt was obtained
AnchoringFailed(p) ==
    /\ reg[p].pc = "done"
    /\ reg[p].pkg # NoPackage /\ reg[p].paddedRoot # Null
    /\ reg[p].receipt = NoReceipt

\* C12, as stated: when the anchoring transaction of a complete-registration
\* request fails (submission error or failed confirmation), the response
\* still carries the signed package, with no numeric id.
C12_AnchoringFailureStillReturnsPackage ==
    \A p \in RegIds : AnchoringFailed(p) =>
        /\ reg[p].resp.package = reg[p].pkg
        /\ reg[p].resp.package.signature # NoSignature
        /\ reg[p].resp.package.uniq_id = Null

\* request p ended with the response that follows a confirmed anchoring
\* transaction: it waited for the receipt and got it
AnchoringConfirmed(p) ==
    /\ reg[p].pc = "done" /\ reg[p].tx = "mined"
    /\ reg[p].resp.status = 200

\* C13, as stated: after a confirmed anchoring transaction the id is taken
\* from the rootToId lookup and, whenever the lookup yields no non-zero id
\* (it throws or returns 0), from the RootAnchored event of the receipt; so
\* whenever the receipt contains the event, the returned package carries a
\* non-null uniq_id.
C13_EventUsedWheneverLookupYieldsNoId ==
    \A p \in RegIds :
        (AnchoringConfirmed(p) /\ Len(reg[p].receipt.logs) > 0) =>
            reg[p].resp.package.uniq_id # Null

\* C14, as stated: when the anchoring transaction is confirmed and no id was
\* recovered, the response is not the anchoring-failure response: it is a
\* success that carries the package, with uniq_id null, together with the
\* hash of the transaction.
C14_PartialSuccessCarriesTxHash ==
    \A p \in RegIds :
        (AnchoringConfirmed(p) /\ reg[p].resp.package.uniq_id = Null) =>
            /\ reg[p].resp.success
            /\ reg[p].resp.error # "Failed to anchor root on-chain."
            /\ reg[p].resp.package = reg[p].pkg
            /\ reg[p].resp.anchorTxHash = reg[p].receipt.hash

\* the five rules of the passphrase policy, by the label the response uses
PolicyRules == <<">=8 chars", "uppercase", "lowercase", "digit", "special">>

Violates(pw, rule) ==
    CASE rule = 1 -> Len(pw) < 8
      [] rule = 2 -> \A i \in 1..Len(pw) : CharAt(pw, i) \notin CharsOf("ABCDEFGHIJKLMNOPQRSTUVWXYZ")
      [] rule = 3 -> \A i \in 1..Len(pw) : CharAt(pw, i) \notin CharsOf("abcdefghijklmnopqrstuvwxyz")
      [] rule = 4 -> \A i \in 1..Len(pw) : CharAt(pw, i) \notin CharsOf("0123456789")
      [] rule = 5 -> \A i \in 1..Len(pw) : CharAt(pw, i) \notin CharsOf("!@#$%^&*")

ViolatedRules(pw) == {rule \in 1..5 : Violates(pw, rule)}

\* the labels of a set of rules, in the order of the rules, separated by ", "
RECURSIVE LabelsFrom(_, _)
LabelsFrom(rule, rules) ==
    IF rule > 5 THEN ""
    ELSE IF rule \notin rules THEN LabelsFrom(rule + 1, rules)
    ELSE PolicyRules[rule]
         \o (IF \E later \in rules : later > rule THEN ", " ELSE "")
         \o LabelsFrom(rule + 1, rules)

\* request p carried a verified token for an email address and a passphrase,
\* and was answered
PolicyApplied(p) ==
    /\ reg[p].pc = "done" /\ reg[p].body.token.kind = "valid"
    /\ isEmail(normalizeEmail(reg[p].body.token.email))
    /\ reg[p].body.paraphrase # Null

PolicyRejection(resp) == resp.status = 400 /\ StartsWith(resp.error, "Paraphrase needs: ")

\* C15, as stated: complete-registration rejects a passphrase if and only if it
\* violates at least one of the five rules, and the rejection response lists
\* exactly the violated rules, all of them and no others.
C15_PolicyListsExactlyTheViolations ==
    \A p \in RegIds : PolicyApplied(p) =>
        LET pw == reg[p].body.paraphrase
        IN  /\ (reg[p].resp.status = 400) <=> (ViolatedRules(pw) # {})
            /\ (reg[p].resp.status = 400) =>
                   reg[p].resp.error = "Paraphrase needs: " \o LabelsFrom(1, ViolatedRules(pw))

\* C15, amended: complete-registration rejects a passphrase if and only if it
\* violates at least one of the five rules; for a non-empty passphrase the
\* rejection response lists exactly the violated rules, all of them and no
\* others (for "weak": length, uppercase, digit and symbol); the empty
\* passphrase is rejected as missing, without a list.
C15_PolicyListsViolationsOfNonEmpty ==
    \A p \in RegIds : PolicyApplied(p) =>
        LET pw == reg[p].body.paraphrase
        IN  /\ (reg[p].resp.status = 400) <=> (ViolatedRules(pw) # {})
            /\ (reg[p].resp.status = 400 /\ pw # "") =>
                   reg[p].resp.error = "Paraphrase needs: " \o LabelsFrom(1, ViolatedRules(pw))
            /\ pw = "" => reg[p].resp.error = "Missing paraphrase."
            /\ pw = "weak" =>
                   reg[p].resp.error = "Paraphrase needs: >=8 chars, uppercase, digit, special"
            /\ PolicyRejection(reg[p].resp) => reg[p].resp.package = NoPackage

\* a passphrase that violates exactly two rules (no digit, no symbol) was
\* rejected with both listed
C15_Witness ==
    \E p \in RegIds :
        /\ PolicyApplied(p)
        /\ ViolatedRules(reg[p].body.paraphrase) = {4, 5}
        /\ reg[p].resp.error = "Paraphrase needs: digit, special"

\* every required field of a login package is there
AllRequiredPresent(pkg) ==
    /\ \A f \in {"uniq_id", "email_hash", "parahash", "salt", "timestamp", "root", "leaf",
                  "signer"} : pkg[f] # Null
    /\ pkg.signature # NoSignature

\* the address recovered from the payload rebuilt from the package is the
\* declared signer (addresses are compared without regard to letter case)
RecoveredIsDeclared(pkg) ==
    LET recovered == verifyMessage(loginCanonical(pkg), pkg.signature)
    IN  recovered # Throw /\ toLowerCase(recovered) = toLowerCase(pkg.signer)

\* the ledger was asked about the parsed id, the leaf and the proof of the
\* package, and answered true
LedgerSaidTrue ==
    /\ login.checked = "ledger"
    /\ login.ok = verifyUser(NumericIdOf(login.pkg.uniq_id), Bytes32(login.pkg.leaf),
                             [i \in 1..Len(login.pkg.proof) |-> Bytes32(login.pkg.proof[i])])
    /\ login.ok = Returned(TRUE)

\* C16: a login request issues a session token if and only if every required
\* field is present, the recovered signer is the declared signer, the uniq_id
\* parses to a positive integer and verifyUser returned true; the token's
\* uniq_num is then the parsed id; every other request ends with a rejection
\* and no token.
C16_TokenIffAllFourChecksPass ==
    login.pc = "done" =>
        LET pkg == login.pkg
            resp == login.resp
            pass == /\ AllRequiredPresent(pkg)
                    /\ RecoveredIsDeclared(pkg)
                    /\ NumericIdOf(pkg.uniq_id) > 0
                    /\ LedgerSaidTrue
        IN  /\ (resp.token # NoSession) <=> pass
            /\ pass => /\ resp.status = 200 /\ resp.success
                       /\ resp.token.uniq_num = NumericIdOf(pkg.uniq_id)
                       /\ resp.uniq_num = NumericIdOf(pkg.uniq_id)
            /\ ~pass => /\ resp.status \in {400, 500} /\ ~resp.success
                        /\ resp.error # Null /\ resp.token = NoSession

\* a login was answered with a token, and its uniq_num is an id of the ledger
C16_Witness ==
    /\ login.pc = "done" /\ login.resp.token # NoSession
    /\ login.resp.token.uniq_num \in 1..nextId

\* the proof folded into the leaf with the builder's two-input field hash,
\* the running value on the left of its sibling, or on the right
RECURSIVE BuilderFold(_, _, _)
BuilderFold(proof, value, valueOnLeft) ==
    IF Len(proof) = 0 THEN value
    ELSE BuilderFold(Tail(proof),
                     IF valueOnLeft THEN poseidon(<<value, Head(proof)>>)
                                    ELSE poseidon(<<Head(proof), value>>),
                     valueOnLeft)

NonEmptyProofs == { <<s>> : s \in Words } \cup { <<2, 6>>, <<6, 2>> }

\* C17: the ledger's verifier and the builder use the same pairwise hash and
\* the same sibling order: under one of the two orders, for every id in range,
\* leaf and non-empty proof, verifyUser(id, leaf, proof) is true exactly when
\* folding the proof into the leaf with the builder's field hash yields
\* roots[id].
C17_VerifierFoldsWithTheBuildersHash ==
    \E valueOnLeft \in BOOLEAN :
        \A id \in 1..nextId : \A leaf \in Words : \A proof \in NonEmptyProofs :
            verifyUser(id, leaf, proof).value <=>
                (BuilderFold(proof, leaf, valueOnLeft) = RootsAt(id))

\* the requests being handled
Running == {p \in RegIds : reg[p].pc # "idle"}

\* C18: each complete-registration request submits at most one anchorRoot
\* transaction. The number of the server's transactions in flight grows by at
\* most one in a step, and only in the step in which a request is received; a
\* request whose submission or wait fails ends without another submission;
\* and a mined transaction of the server writes one record and is no longer
\* in flight, so one request never creates more than one record.
C18_AtMostOneSubmissionPerRequest ==
    [][ /\ Pending' <= Pending + 1
        /\ Pending' > Pending => \E p \in RegIds : /\ reg[p].pc = "idle"
                                                   /\ reg'[p].tx = "pending"
                                                   /\ \A q \in RegIds \ {p} : reg'[q] = reg[q]
        /\ \A p \in Running :
              /\ reg'[p].pc # "idle" => (reg'[p].tx = "pending" => reg[p].tx = "pending")
              /\ reg[p].tx = "mined" => reg'[p].tx \in {"mined", "none"}
        /\ nextId' <= nextId + 1
        /\ (nextId' > nextId /\ lastCall'.sender = AddressOf(ServerKey)) =>
              Pending' = Pending - 1
      ]_vars

\* the wait of a request failed while its one transaction was still in flight
\* and the request ended with the failure
C18_Witness ==
    \E p \in RegIds :
        /\ reg[p].pc = "done" /\ reg[p].tx = "pending"
        /\ reg[p].resp.status = 500
        /\ Pending = 1

\* the callers of one initialisation point that have their instance
Served(helper) == {c \in Callers : engine.callers[c].pc = "done" /\ engine.callers[c].helper = helper}

\* C19: the hash engine is built at most once per initialisation point
\* (poseidonPromise of handlers.js, getPoseidon of the merkle module), also
\* when several callers arrive before the first build has completed, and all
\* callers of a point share the one instance.
C19_EngineBuiltOncePerPoint ==
    /\ engine.promiseBuilt <= 1
    /\ engine.built <= 1
    /\ \A helper \in {"handlers", "merkle"} :
          \A c \in Served(helper), d \in Served(helper) :
              engine.callers[c].got = engine.callers[d].got

\* request p is a completion: it carries an unexpired token of the server and
\* a passphrase the policy accepts
Completion(p) ==
    /\ reg[p].pc # "idle"
    /\ reg[p].body.token.kind = "valid"
    /\ isEmail(normalizeEmail(reg[p].body.token.email))
    /\ reg[p].body.paraphrase \notin {Null, ""}
    /\ ViolatedRules(reg[p].body.paraphrase) = {}

\* the id the ledger assigned in the mined transaction of request p
OwnLedgerId(p) == reg[p].receipt.logs[1].uniqId

Commitment(out) ==
    <<out.package.email_hash, out.package.parahash, out.package.leaf, out.package.root>>

IsFixedWidthLowerHex(h) ==
    /\ h # Null
    /\ Len(h) = 66
    /\ SubSeq(h, 1, 2) = "0x"
    /\ \A i \in 3..Len(h) : CharAt(h, i) \in CharsOf("0123456789abcdef")

\* C22: in every package returned by complete-registration, each of
\* email_hash, parahash, leaf and root is "0x" followed by exactly 64
\* lower-case hex digits, also when the value has leading zero digits.
C22_PackageHashesAreFixedWidthHex ==
    \A p \in RegIds :
        (reg[p].pc = "done" /\ reg[p].resp.success) =>
            \A f \in {"email_hash", "parahash", "leaf", "root"} :
                IsFixedWidthLowerHex(reg[p].resp.package[f])

\* the responses of login that end a request before the ledger is asked
EarlyRejections ==
    { "Missing package field: " \o required[i] : i \in 1..Len(required) }
    \cup { "Invalid signature format.", "Signature not issued by expected signer.",
           "Invalid or missing uniq_id (anchored id required for on-chain verification).",
           "Invalid numeric uniq id in package.",
           "Contract/provider not configured on server." }

\* C23: in every login request the steps occur in the order signature check,
\* id parsing, ledger verification, session issuance: verifyUser is called
\* only after the signature check has passed and the id has parsed to a
\* positive number, a session is issued only after the ledger was asked, and
\* a request rejected at an earlier step makes no ledger call.
C23_LoginStepsInOrder ==
    login.pc = "done" =>
        /\ login.checked = "ledger" =>
              /\ AllRequiredPresent(login.pkg)
              /\ RecoveredIsDeclared(login.pkg)
              /\ NumericIdOf(login.pkg.uniq_id) > 0
              /\ login.numericId = NumericIdOf(login.pkg.uniq_id)
        /\ login.resp.token # NoSession => login.checked = "ledger"
        /\ login.resp.error \in EarlyRejections =>
              /\ login.checked # "ledger"
              /\ login.ok = IdleLogin.ok
        /\ login.checked # "ledger" => login.resp.error \in EarlyRejections
                                        \/ login.resp.error = "On-chain verification failed."

\* one login was rejected by the ledger after passing the signature and id
\* steps
C23_Witness ==
    /\ login.pc = "done" /\ login.checked = "ledger"
    /\ login.resp.error = "Proof not valid against on-chain root."
    /\ RecoveredIsDeclared(login.pkg)

\* what the ledger answers for the id, leaf and proof of a package, now
LedgerAccepts(pkg) ==
    /\ provider # Null /\ "CONTRACT_ADDR" \in env
    /\ IsBytes32Hex(pkg.leaf)
    /\ verifyUser(NumericIdOf(pkg.uniq_id), Bytes32(pkg.leaf),
                  [i \in 1..Len(pkg.proof) |-> Bytes32(pkg.proof[i])]) = Returned(TRUE)

\* C24: the ledger state is changed only by the anchoring step of
\* complete-registration: a step of register-email, verify-email or login, or
\* a verifyUser, getRoot or rootToId read, leaves nextId, roots, rootToId and
\* the event log as they are, and every change made with the server's key is
\* one execution of anchorRoot for a transaction a registration submitted;
\* and the outcome of a login is determined by the presented package and the
\* current ledger state alone.
C24_OnlyAnchoringWritesTheLedger ==
    /\ [][ /\ (login' # login \/ emailCheck' # emailCheck \/ lastView' # lastView) =>
                 ledgerVars' = ledgerVars
           /\ ledgerVars' # ledgerVars =>
                 /\ lastCall'.ok /\ lastCall'.id = nextId' /\ nextId' = nextId + 1
                 /\ lastCall'.sender = AddressOf(ServerKey) => Pending' = Pending - 1
           /\ (\A p \in RegIds : reg'[p].tx = reg[p].tx) /\ orphans' = orphans =>
                 (ledgerVars' # ledgerVars => lastCall'.sender # AddressOf(ServerKey))
         ]_vars
    /\ [](login.pc = "done" =>
            /\ login.resp.success <=> /\ AllRequiredPresent(login.pkg)
                                       /\ RecoveredIsDeclared(login.pkg)
                                       /\ NumericIdOf(login.pkg.uniq_id) > 0
                                       /\ LedgerAccepts(login.pkg)
            /\ login.resp.success =>
                  /\ login.resp.uniq_id = login.pkg.uniq_id
                  /\ login.resp.uniq_num = NumericIdOf(login.pkg.uniq_id))

\* a login was accepted while a registration was being handled and the ledger
\* held two records
C24_Witness ==
    /\ login.pc = "done" /\ login.resp.success
    /\ \E p \in RegIds : reg[p].pc = "wait"
    /\ nextId >= 2

\* C25: single-leaf root computation is the identity everywhere in the code:
\* the helper singleLeafRoot(leaf) returns the leaf itself, the root that the
\* registration handler anchors for that leaf.
C25_SingleLeafRootIsTheLeaf ==
    (enc # NoEncoding /\ enc.done) =>
        \A out \in {enc.outA, enc.outB} :
            /\ out.helperRoot = BigIntOfHex(out.package.leaf)
            /\ out.helperRoot = Bytes32(out.paddedRootHex)

\* the package was signed with a key other than the anchoring authority's and
\* declares that key's own address as its signer
SignedByAnotherKey(pkg) ==
    /\ pkg.signature # NoSignature
    /\ pkg.signature.key # ServerKey
    /\ pkg.signer = AddressOf(pkg.signature.key)

\* C26: login issues a session only for a package whose signature was
\* produced by the anchoring authority's key: a package signed by any other
\* key, with that key's own address declared in its signer field, is rejected
\* at the signature step.
C26_OnlyTheAuthoritysSignatureLogsIn ==
    login.pc = "done" =>
        /\ login.resp.token # NoSession => login.pkg.signature.key = ServerKey
        /\ SignedByAnotherKey(login.pkg) =>
              /\ login.resp.error = "Signature not issued by expected signer."
              /\ login.checked = "none"

\* C27: whenever login issues a session bound to numeric id n, the root
\* covered by the package's signature equals the ledger's roots[n]: replacing
\* the unsigned uniq_id and leaf of a validly signed package with another id
\* and that id's root obtains no session for that id.
C27_SessionIdBoundToSignedRoot ==
    (login.pc = "done" /\ login.resp.token # NoSession) =>
        /\ IsBytes32Hex(login.pkg.root)
        /\ Bytes32(login.pkg.root) = RootsAt(login.resp.token.uniq_num)

\* C28: the uniq_id written into a returned package is the id that the ledger
\* assigned in that same request's own anchorRoot transaction, also when other
\* requests anchoring the same root are mined between this request's
\* transaction and its rootToId lookup.
C28_ReturnedIdIsTheRequestsOwn ==
    \A p \in RegIds :
        (AnchoringConfirmed(p) /\ reg[p].resp.package.uniq_id # Null) =>
            reg[p].resp.package.uniq_id = DisplayId(OwnLedgerId(p))

\* what a request body must satisfy to be let through to the hashing and
\* anchoring part of complete-registration
PassesValidation(body) ==
    /\ body.token.kind = "valid"
    /\ body.token.email # Null
    /\ isEmail(normalizeEmail(body.token.email))
    /\ body.paraphrase \notin {Null, ""}
    /\ ViolatedRules(body.paraphrase) = {}

\* C29: complete-registration writes to the ledger only after all validation
\* has passed: a request with a missing, invalid or expired token, an invalid
\* email in the token, a missing passphrase or a passphrase failing the policy
\* ends at once with a 400 rejection and no package, submits no anchorRoot
\* transaction, and leaves the ledger unchanged.
C29_RejectedRequestsSubmitNothing ==
    /\ [][\A p \in RegIds :
            (reg[p].pc = "idle" /\ reg'[p].pc # "idle"
             /\ ~PassesValidation(reg'[p].body)) =>
                /\ reg'[p].pc = "done"
                /\ reg'[p].resp.status = 400 /\ ~reg'[p].resp.success
                /\ reg'[p].resp.package = NoPackage
                /\ reg'[p].tx = "none"
                /\ Pending' = Pending
                /\ ledgerVars' = ledgerVars]_vars
    /\ [](\A p \in RegIds :
            (reg[p].pc # "idle" /\ ~PassesValidation(reg[p].body)) =>
                reg[p].tx = "none" /\ reg[p].pc = "done")

\* a request with a verified token that carries no email address was rejected
\* on a configured server whose ledger already holds records
C29_Witness ==
    \E p \in RegIds :
        /\ reg[p].pc = "done" /\ reg[p].tx = "none"
        /\ reg[p].body.token.kind = "valid"
        /\ reg[p].resp.error = "Invalid email in token."
        /\ contract # Null /\ nextId >= 1

====
